---- MODULE Spec2Model ----
(***************************************************************************)
(* b2sdk/replication/setup.py: ReplicationSetupHelper.                     *)
(*                                                                         *)
(* The backend (application keys, bucket records with a revision) is the   *)
(* state; the helper's methods are the actions.  Python values are kept    *)
(* by shape: an Optional value is a sequence of length 0 (None) or 1, a    *)
(* str is a sequence of one-character strings, a dict is the sequence of   *)
(* its items in insertion order.                                           *)
(***************************************************************************)
EXTENDS Integers, Sequences, FiniteSets, TLC

VARIABLES keys, nextKeyId, buckets, held, last, calls, deletes, nameCall, priorityCall

vars == <<keys, nextKeyId, buckets, held, last, calls, deletes, nameCall, priorityCall>>

(* ------------------------------ bounds -------------------------------- *)

\* setup_source / setup_destination invocations in one behaviour
MaxCalls == 2
\* keys the environment deletes in one behaviour
MaxDeletes == 1
\* length of the long bucket name (longer than the key-name cut)
LongNameLen == 92
\* candidate indices whose names may already be taken (name generation inputs)
MaxTaken == 9
\* length of the rule lists fed to the priority computation
MaxRules == 3

(* ------------------------- Python value shapes ------------------------ *)

None == <<>>

Some(x) == <<x>>

\* truthiness of an Optional[str]: None and '' are false
Truthy(opt) == opt /= None /\ opt[1] /= <<>>

\* s[:n]
Take(s, n) == SubSeq(s, 1, IF Len(s) < n THEN Len(s) ELSE n)

DigitChar == <<"0", "1", "2", "3", "4", "5", "6", "7", "8", "9">>

RECURSIVE Str(_)
\* str(n) of a natural number
Str(n) == IF n < 10 THEN <<DigitChar[n + 1]>>
          ELSE Str(n \div 10) \o <<DigitChar[(n % 10) + 1]>>

RECURSIVE MaxOf(_)
\* max(...) over a non-empty sequence of integers
MaxOf(s) == IF Len(s) = 1 THEN s[1]
            ELSE LET m == MaxOf(Tail(s)) IN IF s[1] > m THEN s[1] ELSE m

\* min(a + b, cap) for a <= cap: Python integers do not overflow, the checker's
\* are 32 bits wide and MAX_PRIORITY is the largest of them, so the sum is
\* formed only when it does not exceed the cap
MinOfSum(a, b, cap) == IF a > cap - b THEN cap ELSE a + b

(* --------------------------- class constants -------------------------- *)

PRIORITY_OFFSET == 5

DEFAULT_PRIORITY == 128

MAX_PRIORITY == 2147483647

DEFAULT_SOURCE_CAPABILITIES == {"readFiles", "readFileLegalHolds", "readFileRetentions"}

DEFAULT_DESTINATION_CAPABILITIES ==
    {"writeFiles", "writeFileLegalHolds", "writeFileRetentions", "deleteFiles"}

\* bucket.name[:91]
KEY_NAME_CUT == 91

REPLISRC == <<"-", "r", "e", "p", "l", "i", "s", "r", "c">>

REPLIDST == <<"-", "r", "e", "p", "l", "i", "d", "s", "t">>

(* ------------------- rule priority and rule name ---------------------- *)

Priorities(current_rules) == [i \in 1..Len(current_rules) |-> current_rules[i].priority]

\* faulty variant: the last rule's priority is taken for the greatest
GetPriorityAfterLastRule(current_rules, priority) ==
    IF priority /= None THEN priority[1]
    ELSE IF current_rules /= <<>>
         THEN LET existing_priority == current_rules[Len(current_rules)].priority
              IN  MinOfSum(existing_priority, PRIORITY_OFFSET, MAX_PRIORITY)
         ELSE DEFAULT_PRIORITY

_get_priority_for_new_rule(current_rules, priority) ==
    IF priority /= None THEN priority[1]
    ELSE IF current_rules /= <<>>
         THEN LET existing_priority == MaxOf(Priorities(current_rules))
              IN  MinOfSum(existing_priority, PRIORITY_OFFSET, MAX_PRIORITY)
         ELSE DEFAULT_PRIORITY

\* faulty variant: itertools.count(1) instead of itertools.count(2)
SuffixesFromOne(i) == IF i = 0 THEN <<>> ELSE Str(i)

\* the i-th (0-based) item of map(str, chain([''], count(2)))
_get_rule_name_candidate_suffixes(i) == IF i = 0 THEN <<>> ELSE Str(i + 1)

RECURSIVE CandidateLoop(_, _, _)
\* the while True loop: the first candidate not among the existing names
CandidateLoop(existing_names, destination_name, i) ==
    LET candidate == destination_name \o _get_rule_name_candidate_suffixes(i)
    IN  IF candidate \notin existing_names THEN candidate
        ELSE CandidateLoop(existing_names, destination_name, i + 1)

ExistingNames(current_rules) == {current_rules[i].name : i \in 1..Len(current_rules)}

\* faulty variant: the first candidate is returned without looking at the existing names
GetNewRuleNameUnchecked(current_rules, destination_name, name) ==
    IF name /= None THEN name[1]
    ELSE destination_name \o _get_rule_name_candidate_suffixes(0)

_get_new_rule_name(current_rules, destination_name, name) ==
    IF name /= None THEN name[1]
    ELSE CandidateLoop(ExistingNames(current_rules), destination_name, 0)

(* ------------------- the backend: keys and buckets -------------------- *)

Buckets == {1, 2}

Clients == {1, 2}

\* Bucket.name: a short name and one longer than the key-name cut
BucketName(b) == IF b = 1 THEN <<"d">> ELSE [i \in 1..LongNameLen |-> "x"]

\* ApplicationKey.has_capabilities(required)
has_capabilities(key, required) == required \subseteq key.capabilities

\* api.get_key(key_id): the key, or None when it does not resolve
get_key(ks, key_id) ==
    IF key_id /= None /\ key_id[1] \in DOMAIN ks THEN Some(ks[key_id[1]]) ELSE None

\* api.create_key(capabilities, key_name, bucket_id, name_prefix) with a fresh id
create_key(new_id, capabilities, key_name, bucket_id, name_prefix) ==
    [id_ |-> new_id, key_name |-> key_name, capabilities |-> capabilities,
     name_prefix |-> name_prefix, bucket_id |-> bucket_id]

\* Bucket.update(if_revision_is, replication): a conditional whole-object write
Update(stored, if_revision_is, replication) ==
    IF if_revision_is = None \/ if_revision_is[1] = stored.revision
    THEN [ok |-> TRUE,
          bucket |-> [stored EXCEPT !.revision = @ + 1, !.replication = Some(replication)]]
    ELSE [ok |-> FALSE, bucket |-> stored]

\* faulty variant: the update is sent without a revision condition
IfRevisionIsOmitted(bucket) == None

\* if_revision_is=<bucket>.revision
IfRevisionIs(bucket) == Some(bucket.revision)

ReplicationConfiguration(as_replication_source, as_replication_destination) ==
    [as_replication_source |-> as_replication_source,
     as_replication_destination |-> as_replication_destination]

(* ------------------------------ key creation -------------------------- *)

_create_key(new_id, name, bucket, prefix, capabilities) ==
    create_key(new_id, capabilities, name, bucket.id_, prefix)

\* faulty variant: the caller's prefix restricts the new source key
CreateSourceKeyWithPrefix(new_id, name, bucket, prefix) ==
    _create_key(new_id, name, bucket, prefix, DEFAULT_SOURCE_CAPABILITIES)

_create_source_key(new_id, name, bucket, prefix) ==
    _create_key(new_id, name, bucket, None, DEFAULT_SOURCE_CAPABILITIES)

\* faulty variant: the destination key is given the source capabilities
CreateDestinationKeySourceCaps(new_id, name, bucket, prefix) ==
    _create_key(new_id, name, bucket, prefix, DEFAULT_SOURCE_CAPABILITIES)

_create_destination_key(new_id, name, bucket, prefix) ==
    _create_key(new_id, name, bucket, prefix, DEFAULT_DESTINATION_CAPABILITIES)

(* ------------------------------ source side --------------------------- *)

\* the AttributeError of current_replication_configuration.as_replication_source
\*   .source_application_key_id when either attribute chain link is None
SourceKeyIdRaises(replication) ==
    replication = None \/ replication[1].as_replication_source = None

_should_make_new_source_key(current_replication_configuration, current_source_key) ==
    IF current_replication_configuration[1].as_replication_source[1]
           .source_application_key_id = None
    THEN TRUE
    ELSE IF current_source_key = None THEN TRUE
    ELSE IF Truthy(current_source_key[1].name_prefix) THEN TRUE
    ELSE IF ~has_capabilities(current_source_key[1], DEFAULT_SOURCE_CAPABILITIES) THEN TRUE
    ELSE FALSE

\* [raised, looked_up, created, key]
_get_source_key(ks, new_id, source_bucket, prefix, current_replication_configuration) ==
    IF SourceKeyIdRaises(current_replication_configuration)
    THEN [raised |-> TRUE, looked_up |-> <<>>, created |-> <<>>, key |-> None]
    ELSE LET key_id == current_replication_configuration[1].as_replication_source[1]
                           .source_application_key_id
             current_source_key == get_key(ks, key_id)
             do_create_key == _should_make_new_source_key(
                                  current_replication_configuration, current_source_key)
             new_key == _create_source_key(
                            new_id, Take(source_bucket.name, KEY_NAME_CUT) \o REPLISRC,
                            source_bucket, Some(prefix))
         IN  IF ~do_create_key
             THEN [raised |-> FALSE, looked_up |-> <<key_id>>, created |-> <<>>,
                   key |-> current_source_key]
             ELSE [raised |-> FALSE, looked_up |-> <<key_id>>, created |-> <<new_key>>,
                   key |-> Some(new_key)]

\* faulty variant: the current rules are dropped from the new configuration
NewRulesOnly(current_source_rules, new_rr) == <<new_rr>>

\* rules=current_source_rules + [new_rr]
NewSourceRules(current_source_rules, new_rr) == current_source_rules \o <<new_rr>>

ReplicationRule(name, priority, destination_bucket_id, file_name_prefix, include_existing_files) ==
    [name |-> name, priority |-> priority, destination_bucket_id |-> destination_bucket_id,
     file_name_prefix |-> file_name_prefix, include_existing_files |-> include_existing_files]

\* the handler up to, not including, source_bucket.update
setup_source(ks, new_id, source_bucket, destination_bucket, prefix, name, priority, include_existing_files) ==
    LET prefix1 == IF prefix = None THEN <<>> ELSE prefix[1]
        replication == source_bucket.replication
        current_source_rules ==
            IF replication = None \/ replication[1].as_replication_source = None
            THEN <<>> ELSE replication[1].as_replication_source[1].rules
        destination_configuration ==
            IF replication = None THEN None ELSE replication[1].as_replication_destination
        source_key == _get_source_key(ks, new_id, source_bucket, prefix1, replication)
        priority1 == _get_priority_for_new_rule(current_source_rules, priority)
        name1 == _get_new_rule_name(current_source_rules, destination_bucket.name, name)
        new_rr == ReplicationRule(name1, priority1, destination_bucket.id_, prefix1,
                                  include_existing_files)
    IN  IF source_key.raised
        THEN [raised |-> TRUE, looked_up |-> <<>>, created |-> <<>>, key |-> None,
              submitted |-> None]
        ELSE [raised |-> FALSE, looked_up |-> source_key.looked_up,
              created |-> source_key.created, key |-> source_key.key,
              submitted |-> Some(
                  [if_revision_is |-> IfRevisionIs(source_bucket),
                   replication |-> ReplicationConfiguration(
                       Some([source_application_key_id |-> Some(source_key.key[1].id_),
                             rules |-> NewSourceRules(current_source_rules, new_rr)]),
                       destination_configuration)])]

(* --------------------------- destination side ------------------------- *)

\* dict.values(), in insertion order
DictValues(mapping) == [i \in 1..Len(mapping) |-> mapping[i][2]]

DictKeys(mapping) == {mapping[i][1] : i \in 1..Len(mapping)}

\* faulty variant: the mapping is rebuilt with the one new entry
DictOnlyItem(mapping, k, v) == << <<k, v>> >>

\* mapping[k] = v: overwrite in place, or insert at the end
DictSetItem(mapping, k, v) ==
    IF k \in DictKeys(mapping)
    THEN [i \in 1..Len(mapping) |-> IF mapping[i][1] = k THEN <<k, v>> ELSE mapping[i]]
    ELSE Append(mapping, <<k, v>>)

RECURSIVE ScanBreakAtFirstMatch(_, _, _, _)
\* faulty variant: the loop breaks at the first matching key
ScanBreakAtFirstMatch(ks, ids, i, acc) ==
    IF i > Len(ids) \/ acc.key /= None THEN acc
    ELSE LET current_destination_key == get_key(ks, Some(ids[i]))
             seen == [acc EXCEPT !.looked_up = Append(@, ids[i])]
         IN  IF current_destination_key = None
             THEN ScanBreakAtFirstMatch(ks, ids, i + 1,
                      [seen EXCEPT !.keys_to_purge = Append(@, ids[i])])
             ELSE IF has_capabilities(current_destination_key[1],
                                      DEFAULT_DESTINATION_CAPABILITIES)
                     /\ ~Truthy(current_destination_key[1].name_prefix)
             THEN ScanBreakAtFirstMatch(ks, ids, i + 1,
                      [seen EXCEPT !.key = current_destination_key])
             ELSE ScanBreakAtFirstMatch(ks, ids, i + 1, seen)

RECURSIVE ScanDestinationKeys(_, _, _, _)
\* the for loop over current_destination_key_ids, from index i on
ScanDestinationKeys(ks, ids, i, acc) ==
    IF i > Len(ids) THEN acc
    ELSE LET current_destination_key == get_key(ks, Some(ids[i]))
             seen == [acc EXCEPT !.looked_up = Append(@, ids[i])]
         IN  IF current_destination_key = None
             THEN ScanDestinationKeys(ks, ids, i + 1,
                      [seen EXCEPT !.keys_to_purge = Append(@, ids[i])])
             ELSE IF has_capabilities(current_destination_key[1],
                                      DEFAULT_DESTINATION_CAPABILITIES)
                     /\ ~Truthy(current_destination_key[1].name_prefix)
             THEN ScanDestinationKeys(ks, ids, i + 1,
                      [seen EXCEPT !.key = current_destination_key])
             ELSE ScanDestinationKeys(ks, ids, i + 1, seen)

\* [keys_to_purge, key, looked_up, created]
_get_destination_key(ks, new_id, destination_bucket, destination_configuration) ==
    LET current_destination_key_ids ==
            DictValues(destination_configuration.source_to_destination_key_mapping)
        scanned == ScanDestinationKeys(ks, current_destination_key_ids, 1,
                       [keys_to_purge |-> <<>>, key |-> None, looked_up |-> <<>>])
        new_key == _create_destination_key(
                       new_id, Take(destination_bucket.name, KEY_NAME_CUT) \o REPLIDST,
                       destination_bucket, None)
    IN  IF scanned.key = None
        THEN [keys_to_purge |-> scanned.keys_to_purge, key |-> Some(new_key),
              looked_up |-> scanned.looked_up, created |-> <<new_key>>]
        ELSE [keys_to_purge |-> scanned.keys_to_purge, key |-> scanned.key,
              looked_up |-> scanned.looked_up, created |-> <<>>]

\* the handler up to, not including, destination_bucket.update; in_place tells
\* whether the destination configuration written to is the bucket object's own
setup_destination(ks, new_id, source_key_id, destination_bucket) ==
    LET replication == destination_bucket.replication
        source_configuration ==
            IF replication = None \/ replication[1].as_replication_source = None
            THEN None ELSE replication[1].as_replication_source
        in_place == ~(replication = None \/ replication[1].as_replication_destination = None)
        destination_configuration ==
            IF in_place THEN replication[1].as_replication_destination[1]
            ELSE [source_to_destination_key_mapping |-> <<>>]
        found == _get_destination_key(ks, new_id, destination_bucket,
                                      destination_configuration)
        written == [destination_configuration EXCEPT
                       !.source_to_destination_key_mapping =
                           DictSetItem(@, source_key_id, found.key[1].id_)]
    IN  [raised |-> FALSE, looked_up |-> found.looked_up, created |-> found.created,
         key |-> found.key, keys_to_purge |-> found.keys_to_purge, in_place |-> in_place,
         written |-> written,
         submitted |-> Some(
             [if_revision_is |-> IfRevisionIs(destination_bucket),
              replication |-> ReplicationConfiguration(source_configuration,
                                                       Some(written))])]

(* ------------------------------ initial state ------------------------ *)

\* keys of the account before any setup: a good source key, a prefixed one, one
\* lacking a capability, two good destination keys and a prefixed one
InitKeys ==
    [k \in 1..6 |->
        [id_ |-> k, key_name |-> <<"k">> \o Str(k),
         capabilities |-> CASE k = 1 -> DEFAULT_SOURCE_CAPABILITIES
                            [] k = 2 -> DEFAULT_SOURCE_CAPABILITIES
                            [] k = 3 -> {"readFiles", "readFileLegalHolds"}
                            [] k = 4 -> DEFAULT_DESTINATION_CAPABILITIES
                            [] k = 5 -> DEFAULT_DESTINATION_CAPABILITIES
                            [] OTHER -> DEFAULT_DESTINATION_CAPABILITIES
                                            \cup DEFAULT_SOURCE_CAPABILITIES,
         name_prefix |-> IF k \in {2, 5} THEN Some(<<"p">>) ELSE None,
         bucket_id |-> 1]]

\* the id of a key that was deleted before: it resolves to nothing
DeletedKeyId == Len(InitKeys) + 1

\* the id create_key hands out first
FirstNewKeyId == DeletedKeyId + 1

\* the stored configurations a behaviour starts from are paired by position:
\* the source key ids a stored source configuration starts with: unset, a
\* good key, a prefixed key, a key lacking a capability, a deleted key
InitSourceKeyIds == <<None, Some(1), Some(2), Some(3), Some(DeletedKeyId)>>

\* the rule lists a stored source configuration starts with
InitRules ==
    <<<<>>,
      <<ReplicationRule(BucketName(2), MAX_PRIORITY - 3, 2, <<>>, FALSE)>>,
      <<>>,
      <<ReplicationRule(<<"d">>, 7, 2, <<"q">>, TRUE)>>,
      <<ReplicationRule(BucketName(2), MAX_PRIORITY, 2, <<>>, FALSE),
        ReplicationRule(BucketName(2) \o <<"2">>, 1, 2, <<>>, FALSE)>>>>

\* the key mappings a stored destination configuration starts with (None: the
\* bucket has no replication configuration)
InitMappings ==
    <<None,
      Some(<< <<1, DeletedKeyId>> >>),
      Some(<< <<1, 4>>, <<2, DeletedKeyId>>, <<3, 6>> >>),
      Some(<< <<1, 5>>, <<2, 3>> >>),
      Some(<< <<2, 4>> >>)>>

NoCall ==
    [op |-> "none", client |-> 0, bucket |-> 0, destination |-> 0, source_key_id |-> 0,
     prefix |-> None, name |-> None, priority |-> None, include_existing_files |-> FALSE,
     bucket_in |-> None, stored_in |-> None, keys_in |-> <<>>, keys_out |-> <<>>, origin_in |-> None,
     raised |-> FALSE, looked_up |-> <<>>, created |-> <<>>, key |-> None,
     keys_to_purge |-> <<>>, submitted |-> None, outcome |-> "none"]

IdleName == [current_rules |-> <<>>, destination_name |-> <<>>, name |-> None, result |-> None]

IdlePriority == [current_rules |-> <<>>, priority |-> None, result |-> None]

Init ==
    /\ keys = InitKeys
    /\ nextKeyId = FirstNewKeyId
    /\ \E i \in 1..Len(InitSourceKeyIds) :
        LET key_id == InitSourceKeyIds[i]
            rules == InitRules[i]
            dst == InitMappings[i]
        IN
          buckets =
            [b \in Buckets |->
               [id_ |-> b, name |-> BucketName(b), revision |-> 1,
                replication |->
                  IF b = 1
                  THEN Some(ReplicationConfiguration(
                           Some([source_application_key_id |-> key_id, rules |-> rules]),
                           None))
                  ELSE IF dst = None THEN None
                  ELSE Some(ReplicationConfiguration(
                           None, Some([source_to_destination_key_mapping |-> dst[1]])))]]
    /\ held = [c \in Clients |-> [b \in Buckets |->
                 Some([bucket |-> buckets[b], origin |-> None])]]
    /\ last = NoCall
    /\ calls = 0
    /\ deletes = 0
    /\ nameCall = IdleName
    /\ priorityCall = IdlePriority

(* ------------------------------- actions ------------------------------ *)

\* a caller whose bucket object is out of date fetches the current record
GetBucket(c, b) ==
    /\ held[c][b][1].bucket.revision /= buckets[b].revision
    /\ held' = [held EXCEPT ![c][b] = Some([bucket |-> buckets[b], origin |-> None])]
    /\ UNCHANGED <<keys, nextKeyId, buckets, last, calls, deletes, nameCall, priorityCall>>

\* somebody deletes an application key of the account
DeleteKey(k) ==
    /\ deletes < MaxDeletes
    /\ k \in DOMAIN keys
    /\ k >= FirstNewKeyId
    /\ keys' = [j \in DOMAIN keys \ {k} |-> keys[j]]
    /\ deletes' = deletes + 1
    /\ UNCHANGED <<nextKeyId, buckets, held, last, calls, nameCall, priorityCall>>

\* the key store after the handler's create_key calls
KeysAfter(created) ==
    IF created = <<>> THEN keys
    ELSE [j \in DOMAIN keys \cup {created[1].id_} |->
             IF j \in DOMAIN keys THEN keys[j] ELSE created[1]]

SetupSource(c, s, d, prefix, name, priority, include_existing_files) ==
    /\ calls < MaxCalls
    /\ s /= d
    /\ LET source_bucket == held[c][s][1].bucket
           r == setup_source(keys, nextKeyId, source_bucket, buckets[d], prefix, name,
                             priority, include_existing_files)
           u == IF r.raised THEN [ok |-> FALSE, bucket |-> buckets[s]]
                ELSE Update(buckets[s], r.submitted[1].if_revision_is,
                            r.submitted[1].replication)
       IN  /\ keys' = KeysAfter(r.created)
           /\ nextKeyId' = nextKeyId + Len(r.created)
           /\ buckets' = [buckets EXCEPT ![s] = u.bucket]
           /\ held' = IF u.ok
                      THEN [held EXCEPT ![c][s] = Some([bucket |-> u.bucket, origin |-> None])]
                      ELSE held
           /\ last' = [op |-> "setup_source", client |-> c, bucket |-> s, destination |-> d,
                       source_key_id |-> 0, prefix |-> prefix, name |-> name,
                       priority |-> priority,
                       include_existing_files |-> include_existing_files,
                       bucket_in |-> Some(source_bucket), stored_in |-> Some(buckets[s]),
                       keys_in |-> keys, keys_out |-> KeysAfter(r.created),
                       origin_in |-> None,
                       raised |-> r.raised, looked_up |-> r.looked_up,
                       created |-> r.created, key |-> r.key, keys_to_purge |-> <<>>,
                       submitted |-> r.submitted,
                       outcome |-> IF r.raised THEN "AttributeError"
                                   ELSE IF u.ok THEN "committed" ELSE "rejected"]
    /\ calls' = calls + 1
    /\ UNCHANGED <<deletes, nameCall, priorityCall>>

SetupDestination(c, source_key_id, d) ==
    /\ calls < MaxCalls
    /\ LET destination_bucket == held[c][d][1].bucket
           r == setup_destination(keys, nextKeyId, source_key_id, destination_bucket)
           u == Update(buckets[d], r.submitted[1].if_revision_is,
                       r.submitted[1].replication)
           \* the caller's bucket object after the call: the returned bucket, or
           \* the same object with its destination configuration written to
           mutated == IF r.in_place
                      THEN [destination_bucket EXCEPT
                               !.replication[1].as_replication_destination = Some(r.written)]
                      ELSE destination_bucket
       IN  /\ keys' = KeysAfter(r.created)
           /\ nextKeyId' = nextKeyId + Len(r.created)
           /\ buckets' = [buckets EXCEPT ![d] = u.bucket]
           /\ held' = IF u.ok
                      THEN [held EXCEPT ![c][d] =
                               Some([bucket |-> u.bucket,
                                     origin |-> IF r.created /= <<>>
                                                THEN Some([source_key_id |-> source_key_id,
                                                           key_id |-> r.key[1].id_])
                                                ELSE None])]
                      ELSE [held EXCEPT ![c][d] = Some([bucket |-> mutated, origin |-> None])]
           /\ last' = [op |-> "setup_destination", client |-> c, bucket |-> d,
                       destination |-> 0, source_key_id |-> source_key_id,
                       prefix |-> None, name |-> None, priority |-> None,
                       include_existing_files |-> FALSE,
                       bucket_in |-> Some(destination_bucket), stored_in |-> Some(buckets[d]),
                       keys_in |-> keys, keys_out |-> KeysAfter(r.created),
                       origin_in |-> held[c][d][1].origin,
                       raised |-> FALSE, looked_up |-> r.looked_up,
                       created |-> r.created, key |-> r.key,
                       keys_to_purge |-> r.keys_to_purge, submitted |-> r.submitted,
                       outcome |-> IF u.ok THEN "committed" ELSE "rejected"]
    /\ calls' = calls + 1
    /\ UNCHANGED <<deletes, nameCall, priorityCall>>

\* the arguments callers pass to setup_source
SourceArgs ==
    {[prefix |-> None, name |-> None, priority |-> None, include_existing_files |-> FALSE],
     [prefix |-> Some(<<"p">>), name |-> None, priority |-> None,
      include_existing_files |-> TRUE],
     [prefix |-> None, name |-> Some(<<"d">>), priority |-> Some(1),
      include_existing_files |-> FALSE]}

\* the source key ids callers pass to setup_destination
SourceKeyIdArgs == {1, 2}

Next ==
    \/ \E c \in Clients, b \in Buckets : GetBucket(c, b)
    \/ \E k \in FirstNewKeyId..(FirstNewKeyId + MaxCalls) : DeleteKey(k)
    \/ \E c \in Clients, s \in Buckets, d \in Buckets, a \in SourceArgs :
          SetupSource(c, s, d, a.prefix, a.name, a.priority, a.include_existing_files)
    \/ \E c \in Clients, source_key_id \in SourceKeyIdArgs, d \in Buckets :
          SetupDestination(c, source_key_id, d)

Spec == Init /\ [][Next]_vars

(* --------------- rule name generation on drawn inputs ------------------ *)

\* names a source configuration's rules may already carry
NamePool ==
    << <<"d">>, <<"d", "2">>, <<"d", "3">>, <<"d", "4">>, <<"d", "5">>, <<"d", "6">>,
       <<"d", "7">>, <<"d", "8">>, <<"d", "9">>, <<"d", "1", "0">>,
       <<"d", "1">>, <<"d", "1", "2">>, <<"d", "1", "3">> >>

\* destination bucket names
DestinationNames == {<<"d">>, <<"d", "1">>}

\* explicit rule names callers pass
ExplicitNames == {None, Some(<<"d">>), Some(<<>>)}

RECURSIVE RulesNamed(_, _)
\* a rule list carrying the pool's names at the chosen positions
RulesNamed(chosen, i) ==
    IF i > Len(NamePool) THEN <<>>
    ELSE (IF i \in chosen THEN <<ReplicationRule(NamePool[i], DEFAULT_PRIORITY, 2, <<>>, FALSE)>>
          ELSE <<>>) \o RulesNamed(chosen, i + 1)

\* the state of the backend while a pure method is exercised
BackendIdle ==
    /\ keys = InitKeys
    /\ nextKeyId = FirstNewKeyId
    /\ buckets = [b \in Buckets |->
                    [id_ |-> b, name |-> BucketName(b), revision |-> 1, replication |-> None]]
    /\ held = [c \in Clients |-> [b \in Buckets |->
                 Some([bucket |-> buckets[b], origin |-> None])]]
    /\ last = NoCall
    /\ calls = 0
    /\ deletes = 0

InitName ==
    /\ BackendIdle
    /\ priorityCall = IdlePriority
    /\ \E chosen \in SUBSET (1..Len(NamePool)), destination_name \in DestinationNames,
          name \in ExplicitNames :
          /\ Cardinality(chosen) <= MaxTaken
          /\ nameCall = [current_rules |-> RulesNamed(chosen, 1),
                         destination_name |-> destination_name,
                         name |-> name, result |-> None]

GetNewRuleName ==
    /\ nameCall.result = None
    /\ nameCall' = [nameCall EXCEPT !.result =
                       Some(_get_new_rule_name(nameCall.current_rules,
                                               nameCall.destination_name, nameCall.name))]
    /\ UNCHANGED <<keys, nextKeyId, buckets, held, last, calls, deletes, priorityCall>>

NextName == GetNewRuleName

SpecName == InitName /\ [][NextName]_vars

(* --------------- rule priority on drawn inputs ------------------------- *)

\* priorities existing rules carry
PriorityPool == {1, DEFAULT_PRIORITY, MAX_PRIORITY - 5, MAX_PRIORITY - 4, MAX_PRIORITY}

\* explicit priorities callers pass
ExplicitPriorities == {None, Some(1), Some(MAX_PRIORITY)}

InitPriority ==
    /\ BackendIdle
    /\ nameCall = IdleName
    /\ \E n \in 0..MaxRules :
         \E ps \in [1..n -> PriorityPool], priority \in ExplicitPriorities :
            priorityCall =
              [current_rules |->
                 [i \in 1..n |-> ReplicationRule(<<"r">> \o Str(i), ps[i], 2, <<>>, FALSE)],
               priority |-> priority, result |-> None]

GetPriorityForNewRule ==
    /\ priorityCall.result = None
    /\ priorityCall' = [priorityCall EXCEPT !.result =
                           Some(_get_priority_for_new_rule(priorityCall.current_rules,
                                                           priorityCall.priority))]
    /\ UNCHANGED <<keys, nextKeyId, buckets, held, last, calls, deletes, nameCall>>

NextPriority == GetPriorityForNewRule

SpecPriority == InitPriority /\ [][NextPriority]_vars

(* ============================== claims ================================ *)

(* ---- reading a call record ------------------------------------------- *)

HasSourceConfiguration(bucket) ==
    bucket.replication /= None /\ bucket.replication[1].as_replication_source /= None

SourceConfigurationOf(bucket) == bucket.replication[1].as_replication_source[1]

RulesOf(bucket) ==
    IF HasSourceConfiguration(bucket) THEN SourceConfigurationOf(bucket).rules ELSE <<>>

HasDestinationConfiguration(bucket) ==
    bucket.replication /= None /\ bucket.replication[1].as_replication_destination /= None

MappingOf(bucket) ==
    IF HasDestinationConfiguration(bucket)
    THEN bucket.replication[1].as_replication_destination[1].source_to_destination_key_mapping
    ELSE <<>>

\* the value a mapping holds for key k (k is a key of it)
Lookup(mapping, k) == mapping[CHOOSE i \in 1..Len(mapping) : mapping[i][1] = k][2]

PairwiseDistinctNames(rules) ==
    \A i, j \in 1..Len(rules) : rules[i].name = rules[j].name => i = j

IsPrefixOf(s, t) == Len(s) <= Len(t) /\ SubSeq(t, 1, Len(s)) = s

\* <bucket name[:91]> followed by a suffix, written out
CutName(name, suffix) ==
    (IF Len(name) > 91 THEN [i \in 1..91 |-> name[i]] ELSE name) \o suffix

(* ---- C1 -------------------------------------------------------------- *)

C1KeyId == SourceConfigurationOf(last.bucket_in[1]).source_application_key_id

C1Reusable ==
    /\ C1KeyId /= None
    /\ C1KeyId[1] \in DOMAIN last.keys_in
    /\ last.keys_in[C1KeyId[1]].name_prefix = None
    /\ DEFAULT_SOURCE_CAPABILITIES \subseteq last.keys_in[C1KeyId[1]].capabilities

\* C1: setup_source on a bucket that has a source configuration fetches the key
\* set as source_application_key_id; it reuses that key and creates none exactly
\* when the id is set, the key resolves, has no name_prefix and has every
\* capability of DEFAULT_SOURCE_CAPABILITIES; otherwise it creates exactly one
\* key, with DEFAULT_SOURCE_CAPABILITIES and no name_prefix whatever prefix the
\* caller passed; the resolved key's id is the source_application_key_id of the
\* submitted configuration.
C1_SourceKeyResolution ==
    (last.op = "setup_source" /\ HasSourceConfiguration(last.bucket_in[1])) =>
        /\ last.looked_up = <<C1KeyId>>
        /\ C1Reusable =>
              /\ last.created = <<>>
              /\ last.keys_out = last.keys_in
              /\ last.key = Some(last.keys_in[C1KeyId[1]])
        /\ ~C1Reusable =>
              /\ Len(last.created) = 1
              /\ last.created[1].capabilities = DEFAULT_SOURCE_CAPABILITIES
              /\ last.created[1].name_prefix = None
              /\ last.created[1].id_ \notin DOMAIN last.keys_in
              /\ DOMAIN last.keys_out = DOMAIN last.keys_in \cup {last.created[1].id_}
              /\ \A k \in DOMAIN last.keys_in : last.keys_out[k] = last.keys_in[k]
              /\ last.keys_out[last.created[1].id_] = last.created[1]
              /\ last.key = Some(last.created[1])
        /\ last.submitted /= None
        /\ last.submitted[1].replication.as_replication_source[1].source_application_key_id
               = Some(last.key[1].id_)

\* a prefixed key with sufficient capabilities was replaced by a new key while
\* the caller passed a prefix
C1_Witness ==
    /\ last.op = "setup_source"
    /\ HasSourceConfiguration(last.bucket_in[1])
    /\ C1KeyId = Some(2)
    /\ 2 \in DOMAIN last.keys_in
    /\ last.prefix = Some(<<"p">>)
    /\ Len(last.created) = 1

(* ---- C2 -------------------------------------------------------------- *)

\* the call was made on the bucket a committed, key-creating setup_destination
\* with the same source_key_id returned, and the key it created still exists
C2SecondCall ==
    /\ last.op = "setup_destination"
    /\ last.origin_in /= None
    /\ last.origin_in[1].source_key_id = last.source_key_id
    /\ last.origin_in[1].key_id \in DOMAIN last.keys_in

\* C2: a second setup_destination with the same source_key_id on the bucket
\* returned by a first one that created a key (the key still existing) finds
\* that key through the mapping, reuses it and creates no key, and the mapping
\* entry for source_key_id is the same after both calls.
C2_SetupDestinationIdempotent ==
    C2SecondCall =>
        /\ last.created = <<>>
        /\ last.keys_out = last.keys_in
        /\ last.key[1].id_ = last.origin_in[1].key_id
        /\ last.origin_in[1].key_id \in
               {last.looked_up[i] : i \in 1..Len(last.looked_up)}
        /\ Lookup(MappingOf(last.bucket_in[1]), last.source_key_id)
               = last.origin_in[1].key_id
        /\ Lookup(last.submitted[1].replication.as_replication_destination[1]
                      .source_to_destination_key_mapping, last.source_key_id)
               = last.origin_in[1].key_id

C2_Witness == C2SecondCall /\ last.outcome = "committed"

(* ---- C3 -------------------------------------------------------------- *)

\* C3: setup_source on a bucket with no replication configuration, or with no
\* source configuration, does not fail: it creates a source key named
\* <source bucket name[:91]>-replisrc and submits a source configuration with
\* exactly one rule, named after the destination bucket with no suffix and
\* with priority DEFAULT_PRIORITY.
C3_NoSourceConfiguration ==
    (/\ last.op = "setup_source"
     /\ ~HasSourceConfiguration(last.bucket_in[1])
     /\ last.name = None
     /\ last.priority = None) =>
        /\ last.outcome /= "AttributeError"
        /\ Len(last.created) = 1
        /\ last.created[1].key_name = CutName(BucketName(last.bucket), REPLISRC)
        /\ last.submitted /= None
        /\ LET rules == last.submitted[1].replication.as_replication_source[1].rules
           IN  /\ Len(rules) = 1
               /\ rules[1].name = BucketName(last.destination)
               /\ rules[1].priority = DEFAULT_PRIORITY

(* ---- C4 -------------------------------------------------------------- *)

\* the suffixes in the order they are to be tried: "", "2", "3", "4", ...
ExpectedSuffixes ==
    << <<>>, <<"2">>, <<"3">>, <<"4">>, <<"5">>, <<"6">>, <<"7">>, <<"8">>, <<"9">>,
       <<"1", "0">>, <<"1", "1">>, <<"1", "2">>, <<"1", "3">>, <<"1", "4">> >>

C4Existing ==
    {nameCall.current_rules[i].name : i \in 1..Len(nameCall.current_rules)}

\* C4: with no explicit name _get_new_rule_name returns <destination name><suffix>
\* for the first suffix of "", "2", "3", "4", ... whose candidate is not the name
\* of a current rule (so every earlier candidate is one); with an explicit name
\* it returns that name.
C4_NewRuleName ==
    nameCall.result /= None =>
        IF nameCall.name /= None THEN nameCall.result[1] = nameCall.name[1]
        ELSE \E n \in 1..Len(ExpectedSuffixes) :
                /\ nameCall.result[1] = nameCall.destination_name \o ExpectedSuffixes[n]
                /\ nameCall.result[1] \notin C4Existing
                /\ \A j \in 1..(n - 1) :
                      (nameCall.destination_name \o ExpectedSuffixes[j]) \in C4Existing

\* destination "d1" with "d1" and "d12" taken (and "d13" free next to other names)
C4_Witness ==
    /\ nameCall.name = None
    /\ nameCall.destination_name = <<"d", "1">>
    /\ {<<"d", "1">>, <<"d", "1", "2">>, <<"d">>} \subseteq C4Existing
    /\ nameCall.result = Some(<<"d", "1", "3">>)

(* ---- C5 -------------------------------------------------------------- *)

C5Priorities ==
    {priorityCall.current_rules[i].priority : i \in 1..Len(priorityCall.current_rules)}

\* C5: with no explicit priority _get_priority_for_new_rule returns
\* min(greatest existing priority + 5, MAX_PRIORITY), or DEFAULT_PRIORITY when
\* there are no rules; with existing priorities in [1, MAX_PRIORITY] the result
\* is in [1, MAX_PRIORITY] and exceeds every existing priority unless the
\* greatest is MAX_PRIORITY already; with an explicit priority it returns it.
C5_PriorityForNewRule ==
    priorityCall.result /= None =>
        LET r == priorityCall.result[1]
        IN  IF priorityCall.priority /= None THEN r = priorityCall.priority[1]
            ELSE IF C5Priorities = {} THEN r = DEFAULT_PRIORITY /\ r >= 1 /\ r <= MAX_PRIORITY
            ELSE \E m \in C5Priorities :
                    /\ \A q \in C5Priorities : q <= m
                    /\ r = (IF m >= MAX_PRIORITY - 5 THEN MAX_PRIORITY ELSE m + 5)
                    /\ r >= 1 /\ r <= MAX_PRIORITY
                    /\ m /= MAX_PRIORITY => \A q \in C5Priorities : r > q

\* the greatest of several priorities is within the offset of MAX_PRIORITY and
\* is not the last rule's
C5_Witness ==
    /\ priorityCall.priority = None
    /\ Len(priorityCall.current_rules) >= 2
    /\ priorityCall.current_rules[1].priority = MAX_PRIORITY - 4
    /\ priorityCall.current_rules[Len(priorityCall.current_rules)].priority = 1
    /\ priorityCall.result = Some(MAX_PRIORITY)

(* ---- C6 -------------------------------------------------------------- *)

C6Ids == DictValues(MappingOf(last.bucket_in[1]))

C6Resolves(id) == id \in DOMAIN last.keys_in

C6Matches(id) ==
    /\ C6Resolves(id)
    /\ DEFAULT_DESTINATION_CAPABILITIES \subseteq last.keys_in[id].capabilities
    /\ last.keys_in[id].name_prefix = None

\* C6: _get_destination_key looks up exactly the destination key ids of the
\* mapping's values, in order; the ids that do not resolve form the stale list
\* and are never selected; the selected key is the last one in iteration order
\* that resolves, has all DEFAULT_DESTINATION_CAPABILITIES and no name_prefix;
\* exactly when no mapped id satisfies that, exactly one key is created, named
\* <bucket name[:91]>-replidst, with DEFAULT_DESTINATION_CAPABILITIES and no
\* prefix.
C6_DestinationKeySelection ==
    last.op = "setup_destination" =>
        /\ last.looked_up = C6Ids
        /\ last.keys_to_purge = SelectSeq(C6Ids, LAMBDA id : ~C6Resolves(id))
        /\ \A i \in 1..Len(last.keys_to_purge) : last.key[1].id_ /= last.keys_to_purge[i]
        /\ (\E i \in 1..Len(C6Ids) : C6Matches(C6Ids[i])) =>
              /\ last.created = <<>>
              /\ last.keys_out = last.keys_in
              /\ \E i \in 1..Len(C6Ids) :
                    /\ C6Matches(C6Ids[i])
                    /\ \A j \in (i + 1)..Len(C6Ids) : ~C6Matches(C6Ids[j])
                    /\ last.key = Some(last.keys_in[C6Ids[i]])
        /\ ~(\E i \in 1..Len(C6Ids) : C6Matches(C6Ids[i])) =>
              /\ Len(last.created) = 1
              /\ last.key = Some(last.created[1])
              /\ last.created[1].id_ \notin DOMAIN last.keys_in
              /\ last.created[1].key_name = CutName(BucketName(last.bucket), REPLIDST)
              /\ last.created[1].capabilities = DEFAULT_DESTINATION_CAPABILITIES
              /\ last.created[1].name_prefix = None
              /\ DOMAIN last.keys_out = DOMAIN last.keys_in \cup {last.created[1].id_}
              /\ \A k \in DOMAIN last.keys_in : last.keys_out[k] = last.keys_in[k]
              /\ last.keys_out[last.created[1].id_] = last.created[1]

\* two mapped keys match with a stale id between them, and the later one is taken
C6_Witness ==
    /\ last.op = "setup_destination"
    /\ last.keys_to_purge /= <<>>
    /\ \E i, j \in 1..Len(C6Ids) :
          i < j /\ C6Matches(C6Ids[i]) /\ C6Matches(C6Ids[j]) /\ C6Ids[i] /= C6Ids[j]
             /\ last.key[1].id_ = C6Ids[j]

(* ---- C7 -------------------------------------------------------------- *)

\* C7 as claimed: whatever arguments the setup_source calls pass, the rule
\* names of every stored source configuration are pairwise distinct.
C7_RuleNamesUnique == \A b \in Buckets : PairwiseDistinctNames(RulesOf(buckets[b]))

\* the step is a setup_source call on bucket b that passes, as explicit name,
\* the name of one of the bucket's current rules
C7ExplicitNameTaken(b) ==
    /\ calls' = calls + 1
    /\ last'.op = "setup_source"
    /\ last'.bucket = b
    /\ last'.name /= None
    /\ last'.name[1] \in ExistingNames(RulesOf(last'.bucket_in[1]))

\* C7, amended: every step keeps the rule names of a stored source
\* configuration pairwise distinct, unless it is a setup_source call passing an
\* explicit name that is already the name of one of the bucket's rules.
C7_RuleNamesUniqueUnlessExplicitNameTaken ==
    [][\A b \in Buckets :
          (PairwiseDistinctNames(RulesOf(buckets[b])) /\ ~C7ExplicitNameTaken(b))
              => PairwiseDistinctNames(RulesOf(buckets'[b]))]_vars

\* a committed call with no explicit name whose first two candidates were taken
C7_Witness ==
    /\ last.op = "setup_source"
    /\ last.outcome = "committed"
    /\ last.name = None
    /\ {BucketName(last.destination), BucketName(last.destination) \o <<"2">>}
           \subseteq ExistingNames(RulesOf(last.bucket_in[1]))
    /\ PairwiseDistinctNames(RulesOf(buckets[last.bucket]))
    /\ Len(RulesOf(buckets[last.bucket])) >= 3

(* ---- C8 -------------------------------------------------------------- *)

\* C8: every update is submitted with if_revision_is equal to the revision of
\* the bucket object the call was given; it is committed exactly when that is
\* the stored revision, and committing advances the stored revision, so of two
\* calls given the same revision at most one commits; a rejected call changes
\* no bucket (no retry); and no step removes a rule or a mapping entry from a
\* stored bucket.
C8_OptimisticConcurrency ==
    [][/\ (calls' = calls + 1 /\ last'.submitted /= None) =>
             LET b == last'.bucket
                 read == last'.bucket_in[1].revision
             IN  /\ last'.submitted[1].if_revision_is = Some(read)
                 /\ last'.outcome \in {"committed", "rejected"}
                 /\ last'.outcome = "committed" <=> read = buckets[b].revision
                 /\ last'.outcome = "committed" =>
                       /\ buckets'[b].revision > read
                       /\ buckets'[b].replication = Some(last'.submitted[1].replication)
                 /\ last'.outcome = "rejected" => buckets' = buckets
       /\ \A b \in Buckets :
             /\ IsPrefixOf(RulesOf(buckets[b]), RulesOf(buckets'[b]))
             /\ DictKeys(MappingOf(buckets[b])) \subseteq DictKeys(MappingOf(buckets'[b]))
      ]_vars

\* a call was rejected after exactly one other update of the same bucket was
\* committed from the revision both had read
C8_Witness ==
    /\ last.outcome = "rejected"
    /\ buckets[last.bucket].revision = last.bucket_in[1].revision + 1
    /\ \E c \in Clients :
          /\ c /= last.client
          /\ held[c][last.bucket][1].bucket = buckets[last.bucket]

(* ---- C9 -------------------------------------------------------------- *)

\* C9: the configuration setup_source submits has as rules the bucket's
\* current rules, unchanged and in order, followed by exactly one new rule
\* (resolved name and priority, the destination bucket's id, the caller's
\* prefix or "" when unset, the caller's include_existing_files), and as
\* destination configuration the bucket's own, unchanged; the call writes no
\* bucket other than the source bucket.
C9_SetupSourceFrame ==
    [][(calls' = calls + 1 /\ last'.op = "setup_source" /\ last'.submitted /= None) =>
          LET bucket == last'.bucket_in[1]
              old == RulesOf(bucket)
              submitted == last'.submitted[1].replication
              new == submitted.as_replication_source[1].rules
              rr == new[Len(new)]
          IN  /\ Len(new) = Len(old) + 1
              /\ SubSeq(new, 1, Len(old)) = old
              /\ IF last'.name /= None THEN rr.name = last'.name[1]
                 ELSE /\ rr.name \notin ExistingNames(old)
                      /\ IsPrefixOf(BucketName(last'.destination), rr.name)
              /\ IF last'.priority /= None THEN rr.priority = last'.priority[1]
                 ELSE IF old = <<>> THEN rr.priority = DEFAULT_PRIORITY
                 ELSE \A i \in 1..Len(old) : rr.priority >= old[i].priority
              /\ rr.destination_bucket_id = last'.destination
              /\ rr.file_name_prefix = (IF last'.prefix = None THEN <<>> ELSE last'.prefix[1])
              /\ rr.include_existing_files = last'.include_existing_files
              /\ submitted.as_replication_destination
                     = bucket.replication[1].as_replication_destination
              /\ \A b \in Buckets \ {last'.bucket} : buckets'[b] = buckets[b]
      ]_vars

\* a committed call on a bucket that had rules and a destination configuration,
\* with a prefix passed
C9_Witness ==
    /\ last.op = "setup_source"
    /\ last.outcome = "committed"
    /\ RulesOf(last.bucket_in[1]) /= <<>>
    /\ HasDestinationConfiguration(last.bucket_in[1])
    /\ last.prefix /= None
    /\ last.include_existing_files

(* ---- C10 ------------------------------------------------------------- *)

\* C10: the configuration setup_destination submits keeps the bucket's source
\* configuration, and its mapping is the previous mapping with only the entry
\* for source_key_id set to the resolved key's id: every other entry is kept,
\* in place, the entries found stale included.
C10_SetupDestinationFrame ==
    last.op = "setup_destination" =>
        LET bucket == last.bucket_in[1]
            old == MappingOf(bucket)
            submitted == last.submitted[1].replication
            new == submitted.as_replication_destination[1].source_to_destination_key_mapping
        IN  /\ submitted.as_replication_source =
                  (IF bucket.replication = None THEN None
                   ELSE bucket.replication[1].as_replication_source)
            /\ DictKeys(new) = DictKeys(old) \cup {last.source_key_id}
            /\ Len(new) = Cardinality(DictKeys(new))
            /\ Lookup(new, last.source_key_id) = last.key[1].id_
            /\ \A i \in 1..Len(old) :
                  old[i][1] /= last.source_key_id => new[i] = old[i]

\* a committed call on a bucket with a source configuration whose mapping held,
\* under another source key id, a destination key id found stale
C10_Witness ==
    /\ last.op = "setup_destination"
    /\ last.outcome = "committed"
    /\ HasSourceConfiguration(last.bucket_in[1])
    /\ \E i \in 1..Len(MappingOf(last.bucket_in[1])) :
          /\ MappingOf(last.bucket_in[1])[i][1] /= last.source_key_id
          /\ MappingOf(last.bucket_in[1])[i][2] \in
                 {last.keys_to_purge[j] : j \in 1..Len(last.keys_to_purge)}
          /\ MappingOf(last.bucket_in[1])[i] \in
                 {MappingOf(buckets[last.bucket])[j] :
                      j \in 1..Len(MappingOf(buckets[last.bucket]))}

====
